---- MODULE Spec2Model ----
(***************************************************************************)
(* Synthetic swaption trade generator                                      *)
(* (Synthetic_Swaption_Trade_Generator_Using_SDV.py).                      *)
(*                                                                         *)
(* Conventions of the model:                                               *)
(*   - a date is its day ordinal (an integer); timedelta(days=k) adds k;   *)
(*   - a strike is kept in hundredths (round(x, 2) * 100), so the source's *)
(*     "strike < 3.0" reads "strike < 300";                                *)
(*   - a Python string built by an f-string is the sequence of its         *)
(*     characters;                                                         *)
(*   - every np.random draw is an input: in SpecTrade it is picked freely  *)
(*     from the draw's range, in Spec (the whole script) it is the next    *)
(*     value of a seeded stream whose seed is picked freely.               *)
(***************************************************************************)
EXTENDS Integers, Sequences, FiniteSets, TLC

VARIABLES pc, numTrades, today, rng, i, level2_count, level3_count,
          level3_yes_count, level3_no_count, data, calls, df, metadata,
          synth, synthetic_df, csv, writes, printed, args, trade

vars == <<pc, numTrades, today, rng, i, level2_count, level3_count,
          level3_yes_count, level3_no_count, data, calls, df, metadata,
          synth, synthetic_df, csv, writes, printed, args, trade>>

-----------------------------------------------------------------------------
(* Bounds of the model and constants of the program *)

NUM_TRADES == 1000

\* numTrades ranges over 0..MaxTrades and the configured NUM_TRADES
MaxTrades == 40

\* the seed of the random stream ranges over 0..MaxSeed
MaxSeed == 5

\* a draw from a numeric range takes the EdgeWidth lowest and highest values
\* of the range (and the values within EdgeWidth of the strike threshold)
EdgeWidth == 1

-----------------------------------------------------------------------------
(* Helpers that are not in the source: integer arithmetic *)

Min(S) == CHOOSE x \in S : \A y \in S : x <= y

Max(S) == CHOOSE x \in S : \A y \in S : x >= y

Edges(lo, hi) == {v \in lo..hi : v < lo + EdgeWidth \/ v > hi - EdgeWidth}

Near(lo, hi, c) == {v \in lo..hi : v >= c - EdgeWidth /\ v <= c + EdgeWidth}

-----------------------------------------------------------------------------
(* Python string conversions *)

Digits == <<"0", "1", "2", "3", "4", "5", "6", "7", "8", "9">>

RECURSIVE Str(_)
\* str(n) for an integer n >= 0
Str(n) == IF n < 10 THEN <<Digits[n + 1]>>
          ELSE Str(n \div 10) \o <<Digits[(n % 10) + 1]>>

RECURSIVE ZFill(_, _)
\* s.zfill(width): pad with "0" on the left up to width, never truncate
ZFill(s, width) == IF Len(s) >= width THEN s ELSE ZFill(<<"0">> \o s, width)

TradeId(seq_id) == <<"H", "A", "C", "K", "T", "R", "D">> \o ZFill(Str(seq_id), 4)

CounterpartyId(n) == <<"C", "P", "T", "Y">> \o Str(n)

-----------------------------------------------------------------------------
(* HELPERS *)

random_past_date(today_, days_ago) == today_ - days_ago

\* determine_ifrs13_level with the maturity bound off by one (<= 15)
determine_ifrs13_level_le15(currency, expiry_tenor, maturity_tenor, strike) ==
    LET is_level2 == /\ currency = "USD"
                     /\ expiry_tenor \in {2, 3}
                     /\ maturity_tenor <= 15
                     /\ strike < 300
    IN  IF is_level2 THEN "Level 2" ELSE "Level 3"

determine_ifrs13_level(currency, expiry_tenor, maturity_tenor, strike) ==
    LET is_level2 == /\ currency = "USD"
                     /\ expiry_tenor \in {2, 3}
                     /\ maturity_tenor < 15
                     /\ strike < 300
    IN  IF is_level2 THEN "Level 2" ELSE "Level 3"

\* ForceBranch with the two flags mixed up: force_level3 takes the USD arm
ForceBranch_swapped(force_usd_level2, force_level3, trade_date, d) ==
    LET expiry_tenor0 == d.expiry0
        maturity_tenor0 == d.maturity0
        expiry_date0 == trade_date + expiry_tenor0 * 365
        maturity_date0 == trade_date + maturity_tenor0 * 365
    IN  IF force_level3 THEN
            [strike |-> d.strike2,
             currency |-> "USD",
             expiry_tenor |-> expiry_tenor0,
             maturity_tenor |-> maturity_tenor0,
             expiry_date |-> expiry_date0,
             maturity_date |-> maturity_date0]
        ELSE IF force_usd_level2 THEN
            [strike |-> d.strike3,
             currency |-> d.currency3,
             expiry_tenor |-> d.expiry1,
             maturity_tenor |-> d.maturity1,
             expiry_date |-> trade_date + d.expiry1 * 365,
             maturity_date |-> trade_date + d.maturity1 * 365]
        ELSE
            [strike |-> d.strike_any,
             currency |-> d.currency_any,
             expiry_tenor |-> expiry_tenor0,
             maturity_tenor |-> maturity_tenor0,
             expiry_date |-> expiry_date0,
             maturity_date |-> maturity_date0]

\* ForceBranch with the elif arm overriding the tenors but not the dates
ForceBranch_stale_dates(force_usd_level2, force_level3, trade_date, d) ==
    LET expiry_tenor0 == d.expiry0
        maturity_tenor0 == d.maturity0
        expiry_date0 == trade_date + expiry_tenor0 * 365
        maturity_date0 == trade_date + maturity_tenor0 * 365
    IN  IF force_usd_level2 THEN
            [strike |-> d.strike2,
             currency |-> "USD",
             expiry_tenor |-> expiry_tenor0,
             maturity_tenor |-> maturity_tenor0,
             expiry_date |-> expiry_date0,
             maturity_date |-> maturity_date0]
        ELSE IF force_level3 THEN
            [strike |-> d.strike3,
             currency |-> d.currency3,
             expiry_tenor |-> d.expiry1,
             maturity_tenor |-> d.maturity1,
             expiry_date |-> expiry_date0,
             maturity_date |-> maturity_date0]
        ELSE
            [strike |-> d.strike_any,
             currency |-> d.currency_any,
             expiry_tenor |-> expiry_tenor0,
             maturity_tenor |-> maturity_tenor0,
             expiry_date |-> expiry_date0,
             maturity_date |-> maturity_date0]

\* ForceBranch with the elif arm leaving the drawn tenors in place
ForceBranch_no_override(force_usd_level2, force_level3, trade_date, d) ==
    LET expiry_tenor0 == d.expiry0
        maturity_tenor0 == d.maturity0
        expiry_date0 == trade_date + expiry_tenor0 * 365
        maturity_date0 == trade_date + maturity_tenor0 * 365
    IN  [strike |-> IF force_usd_level2 THEN d.strike2
                    ELSE IF force_level3 THEN d.strike3 ELSE d.strike_any,
         currency |-> IF force_usd_level2 THEN "USD"
                      ELSE IF force_level3 THEN d.currency3 ELSE d.currency_any,
         expiry_tenor |-> expiry_tenor0,
         maturity_tenor |-> maturity_tenor0,
         expiry_date |-> expiry_date0,
         maturity_date |-> maturity_date0]

\* generate_trade, lines 33-50: the tenors, the dates derived from them, and
\* the if / elif / else on the forcing flags.  d names the outcome of each
\* draw by its place in the source: strike2 (line 39), strike3 (line 42),
\* currency3 (43), expiry1 (44), maturity1 (45), strike_any (49),
\* currency_any (50).
ForceBranch(force_usd_level2, force_level3, trade_date, d) ==
    LET expiry_tenor0 == d.expiry0
        maturity_tenor0 == d.maturity0
        expiry_date0 == trade_date + expiry_tenor0 * 365
        maturity_date0 == trade_date + maturity_tenor0 * 365
    IN  IF force_usd_level2 THEN
            [strike |-> d.strike2,
             currency |-> "USD",
             expiry_tenor |-> expiry_tenor0,
             maturity_tenor |-> maturity_tenor0,
             expiry_date |-> expiry_date0,
             maturity_date |-> maturity_date0]
        ELSE IF force_level3 THEN
            [strike |-> d.strike3,
             currency |-> d.currency3,
             expiry_tenor |-> d.expiry1,
             maturity_tenor |-> d.maturity1,
             expiry_date |-> trade_date + d.expiry1 * 365,
             maturity_date |-> trade_date + d.maturity1 * 365]
        ELSE
            [strike |-> d.strike_any,
             currency |-> d.currency_any,
             expiry_tenor |-> expiry_tenor0,
             maturity_tenor |-> maturity_tenor0,
             expiry_date |-> expiry_date0,
             maturity_date |-> maturity_date0]

\* generate_trade; d holds the outcomes of the np.random draws of the call,
\* in the order the call makes them
generate_trade(seq_id, force_usd_level2, force_level3, today_, d) ==
    LET trade_date == random_past_date(today_, d.days_ago)
        b == ForceBranch(force_usd_level2, force_level3, trade_date, d)
        level == determine_ifrs13_level(b.currency, b.expiry_tenor,
                                        b.maturity_tenor, b.strike)
    IN  [trade_id |-> TradeId(seq_id),
         trade_id_type |-> "HackTradeID",
         trade_version |-> d.trade_version,
         product_type |-> "IR Swaption",
         currency |-> b.currency,
         option_type |-> d.option_type,
         notional |-> d.notional * 100000,
         trade_date |-> trade_date,
         strike |-> b.strike,
         expiry_date |-> b.expiry_date,
         maturity_date |-> b.maturity_date,
         counterparty_id |-> CounterpartyId(d.counterparty),
         expiry_tenor |-> b.expiry_tenor,
         maturity_tenor |-> b.maturity_tenor,
         ifrs13_level |-> level,
         Day2_Pnl_Above_Threshold |-> "No"]

-----------------------------------------------------------------------------
(* The ranges of the np.random draws of one generate_trade call.  A draw the  *)
(* call does not reach is fixed to the lowest value of its range.             *)

Todays == {739000, 739001}

SeqIds == {1, 1000, 10000}

DrawsFor(force_usd_level2, force_level3) ==
    LET forced3 == ~force_usd_level2 /\ force_level3
        unforced == ~force_usd_level2 /\ ~force_level3
    IN  [days_ago : Edges(30, 729),
         expiry0 : {2, 3, 5},
         maturity0 : {5, 10, 15, 20, 30},
         strike2 : IF force_usd_level2 THEN Edges(50, 290) ELSE {50},
         strike3 : IF forced3 THEN Edges(310, 500) ELSE {310},
         currency3 : IF forced3 THEN {"EUR", "GBP", "JPY"} ELSE {"EUR"},
         expiry1 : IF forced3 THEN {1, 5} ELSE {1},
         maturity1 : IF forced3 THEN {15, 20, 30} ELSE {15},
         strike_any : IF unforced THEN Edges(50, 500) \cup Near(50, 500, 300)
                      ELSE {50},
         currency_any : IF unforced THEN {"EUR", "USD", "GBP", "JPY"} ELSE {"EUR"},
         trade_version : 1..4,
         option_type : {"Payer", "Receiver"},
         notional : Edges(10, 999),
         counterparty : {1000, 9998}]

NoTrade == [trade_id |-> <<>>]

-----------------------------------------------------------------------------
(* SpecTrade: one call of generate_trade on inputs drawn by Init *)

InitTrade ==
    /\ \E s \in SeqIds, f2 \in BOOLEAN, f3 \in BOOLEAN, t \in Todays :
         \E d \in DrawsFor(f2, f3) :
            args = [seq_id |-> s, force_usd_level2 |-> f2, force_level3 |-> f3,
                    today |-> t, d |-> d]
    /\ trade = NoTrade
    /\ pc = "call" /\ numTrades = 0 /\ today = 0 /\ rng = 0 /\ i = 0
    /\ level2_count = 0 /\ level3_count = 0
    /\ level3_yes_count = 0 /\ level3_no_count = 0
    /\ data = <<>> /\ calls = <<>> /\ df = <<>> /\ metadata = <<>>
    /\ synth = <<>> /\ synthetic_df = <<>> /\ csv = <<>> /\ writes = 0
    /\ printed = FALSE

CallGenerateTrade ==
    /\ pc = "call"
    /\ trade' = generate_trade(args.seq_id, args.force_usd_level2,
                               args.force_level3, args.today, args.d)
    /\ pc' = "returned"
    /\ UNCHANGED <<numTrades, today, rng, i, level2_count, level3_count,
                   level3_yes_count, level3_no_count, data, calls, df, metadata,
                   synth, synthetic_df, csv, writes, printed, args>>

NextTrade == CallGenerateTrade

SpecTrade == InitTrade /\ [][NextTrade]_vars

-----------------------------------------------------------------------------
(* np.random, seeded once at start-up.  The generator is a stream of values    *)
(* fixed by its seed; rng = [seed, pos] is the seed and the number of draws    *)
(* made so far.  The seed is an input of the model.                            *)

Rand(r, k, n) ==
    LET x == ((r.pos + k + 1) * 7919 + (r.seed + 1) * 104729) % 46337
    IN  ((x * x + x) % 1000003) % n

\* np.random.randint(lo, hi): lo <= value < hi
RandInt(r, k, lo, hi) == lo + Rand(r, k, hi - lo)

\* np.random.choice(list)
Choice(r, k, list) == list[Rand(r, k, Len(list)) + 1]

\* round(np.random.uniform(lo, hi), 2), in hundredths
Uniform2(r, k, lo, hi) == lo + Rand(r, k, hi - lo + 1)

\* the draws of one generate_trade call, numbered in the order of the call;
\* a draw the call does not reach is fixed to the lowest value of its range
DrawsAt(r, force_usd_level2, force_level3) ==
    LET forced3 == ~force_usd_level2 /\ force_level3
        unforced == ~force_usd_level2 /\ ~force_level3
        \* number of draws the branch makes
        nb == IF force_usd_level2 THEN 1 ELSE IF force_level3 THEN 4 ELSE 2
    IN  [days_ago |-> RandInt(r, 0, 30, 730),
         expiry0 |-> Choice(r, 1, <<2, 3, 5>>),
         maturity0 |-> Choice(r, 2, <<5, 10, 15, 20, 30>>),
         strike2 |-> IF force_usd_level2 THEN Uniform2(r, 3, 50, 290) ELSE 50,
         strike3 |-> IF forced3 THEN Uniform2(r, 3, 310, 500) ELSE 310,
         currency3 |-> IF forced3 THEN Choice(r, 4, <<"EUR", "GBP", "JPY">>)
                       ELSE "EUR",
         expiry1 |-> IF forced3 THEN Choice(r, 5, <<1, 5>>) ELSE 1,
         maturity1 |-> IF forced3 THEN Choice(r, 6, <<15, 20, 30>>) ELSE 15,
         strike_any |-> IF unforced THEN Uniform2(r, 3, 50, 500) ELSE 50,
         currency_any |-> IF unforced
                          THEN Choice(r, 4, <<"EUR", "USD", "GBP", "JPY">>)
                          ELSE "EUR",
         trade_version |-> RandInt(r, 3 + nb, 1, 5),
         option_type |-> Choice(r, 4 + nb, <<"Payer", "Receiver">>),
         notional |-> RandInt(r, 5 + nb, 10, 1000),
         counterparty |-> RandInt(r, 6 + nb, 1000, 9999)]

DrawCount(force_usd_level2, force_level3) ==
    7 + (IF force_usd_level2 THEN 1 ELSE IF force_level3 THEN 4 ELSE 2)

Advance(r, n) == [r EXCEPT !.pos = r.pos + n]

-----------------------------------------------------------------------------
(* DATA GENERATION *)

TradeCounts == (0..MaxTrades) \cup {NUM_TRADES}

\* int(n * 0.8) rounded up instead of truncated
IntTimes080_ceil(n) == (n * 80 + 99) \div 100

\* the share of the "No" rows (0.85) taken for the "Yes" rows
IntTimes015_no_share(n) == (n * 85) \div 100

\* int(n * 0.8) and int(n * 0.15): the truncated IEEE double product equals the
\* exact floor for every n up to 200000
IntTimes080(n) == (n * 80) \div 100

IntTimes015(n) == (n * 15) \div 100

Init ==
    /\ pc = "start"
    /\ numTrades \in TradeCounts
    /\ today \in Todays
    /\ rng \in [seed : 0..MaxSeed, pos : {0}]
    /\ i = 0
    /\ level2_count = 0 /\ level3_count = 0
    /\ level3_yes_count = 0 /\ level3_no_count = 0
    /\ data = <<>> /\ calls = <<>> /\ df = <<>> /\ metadata = <<>>
    /\ synth = <<>> /\ synthetic_df = <<>> /\ csv = <<>> /\ writes = 0
    /\ printed = FALSE
    /\ args = <<>> /\ trade = NoTrade

\* lines 76-81
Setup ==
    /\ pc = "start"
    /\ data' = <<>>
    /\ level2_count' = IntTimes080(numTrades)
    /\ level3_count' = numTrades - level2_count'
    /\ level3_yes_count' = IntTimes015(level3_count')
    /\ level3_no_count' = level3_count' - level3_yes_count'
    /\ i' = 1
    /\ pc' = "loop_level2"
    /\ UNCHANGED <<numTrades, today, rng, calls, df, metadata, synth,
                   synthetic_df, csv, writes, printed, args, trade>>

\* one iteration of a generation loop: generate_trade(i, ...), set the flag, append
Iteration(force_usd_level2, force_level3, flag) ==
    LET t == generate_trade(i, force_usd_level2, force_level3, today,
                            DrawsAt(rng, force_usd_level2, force_level3))
    IN  /\ data' = Append(data, [t EXCEPT !.Day2_Pnl_Above_Threshold = flag])
        /\ calls' = Append(calls, [seq_id |-> i,
                                   force_usd_level2 |-> force_usd_level2,
                                   force_level3 |-> force_level3])
        /\ rng' = Advance(rng, DrawCount(force_usd_level2, force_level3))
        /\ i' = i + 1
        /\ UNCHANGED <<pc, numTrades, today, level2_count, level3_count,
                       level3_yes_count, level3_no_count, df, metadata, synth,
                       synthetic_df, csv, writes, printed, args, trade>>

LoopExit(next_pc, first) ==
    /\ pc' = next_pc
    /\ i' = first
    /\ UNCHANGED <<numTrades, today, rng, level2_count, level3_count,
                   level3_yes_count, level3_no_count, data, calls, df, metadata,
                   synth, synthetic_df, csv, writes, printed, args, trade>>

\* for i in range(1, level2_count + 1)
Level2Stop == level2_count + 1

GenLevel2 ==
    /\ pc = "loop_level2" /\ i < Level2Stop
    /\ Iteration(TRUE, FALSE, "No")

\* for i in range(level2_count + 1, level2_count + 1 + level3_yes_count)
Level3YesStart == level2_count + 1

Level3YesStop == level2_count + 1 + level3_yes_count

EndLevel2 ==
    /\ pc = "loop_level2" /\ i >= Level2Stop
    /\ LoopExit("loop_level3_yes", Level3YesStart)

GenLevel3Yes ==
    /\ pc = "loop_level3_yes" /\ i < Level3YesStop
    /\ Iteration(FALSE, TRUE, "Yes")

\* for i in range(level2_count + 1 + level3_yes_count, NUM_TRADES + 1)
\* the third loop starting where the second started
Level3NoStart_overlap == level2_count + 1

Level3NoStart == level2_count + 1 + level3_yes_count

Level3NoStop == numTrades + 1

EndLevel3Yes ==
    /\ pc = "loop_level3_yes" /\ i >= Level3YesStop
    /\ LoopExit("loop_level3_no", Level3NoStart)

GenLevel3No ==
    /\ pc = "loop_level3_no" /\ i < Level3NoStop
    /\ Iteration(FALSE, TRUE, "No")

\* df = pd.DataFrame(data)
BuildFrame ==
    /\ pc = "loop_level3_no" /\ i >= Level3NoStop
    /\ df' = data
    /\ pc' = "metadata"
    /\ UNCHANGED <<numTrades, today, rng, i, level2_count, level3_count,
                   level3_yes_count, level3_no_count, data, calls, metadata,
                   synth, synthetic_df, csv, writes, printed, args, trade>>

-----------------------------------------------------------------------------
(* METADATA & SYNTHESIS.  The synthesizer is the sdv library, used with its    *)
(* default settings: a numerical or datetime column of a sampled row lies      *)
(* between the smallest and the largest value of that column in the fitted     *)
(* table (enforce_min_max_values), a numerical column keeps the precision of   *)
(* the fitted column (enforce_rounding), a categorical column takes a value    *)
(* that occurs in the fitted column.  Which values it takes is left to the     *)
(* random stream.                                                              *)

Columns == <<"trade_id", "trade_id_type", "trade_version", "product_type",
             "currency", "option_type", "notional", "trade_date", "strike",
             "expiry_date", "maturity_date", "counterparty_id", "expiry_tenor",
             "maturity_tenor", "ifrs13_level", "Day2_Pnl_Above_Threshold">>

ColumnSet == {Columns[k] : k \in 1..Len(Columns)}

NumberColumns == {"trade_version", "notional", "strike", "expiry_tenor",
                  "maturity_tenor"}

DateColumns == {"trade_date", "expiry_date", "maturity_date"}

\* metadata.detect_from_dataframe(df)
Detect(table) == [c \in ColumnSet |->
                    IF c \in NumberColumns THEN "numerical" ELSE "categorical"]

\* lines 107-113; update_column raises on a table without columns
SetupMetadata ==
    /\ pc = "metadata"
    /\ IF df = <<>>
       THEN /\ pc' = "aborted"
            /\ UNCHANGED metadata
       ELSE /\ metadata' = [primary_key |-> "None",
                            columns |-> [Detect(df) EXCEPT
                                           !["trade_id"] = "categorical",
                                           !["trade_date"] = "datetime",
                                           !["expiry_date"] = "datetime",
                                           !["maturity_date"] = "datetime"]]
            /\ pc' = "fit"
    /\ UNCHANGED <<numTrades, today, rng, i, level2_count, level3_count,
                   level3_yes_count, level3_no_count, data, calls, df,
                   synth, synthetic_df, csv, writes, printed, args, trade>>

ColumnValues(table, c) == {table[k][c] : k \in 1..Len(table)}

\* synth = GaussianCopulaSynthesizer(metadata); synth.fit(df)
Fit ==
    /\ pc = "fit"
    /\ synth' = [metadata |-> metadata,
                 table |-> df,
                 lo |-> [c \in NumberColumns \cup DateColumns |->
                            Min(ColumnValues(df, c))],
                 hi |-> [c \in NumberColumns \cup DateColumns |->
                            Max(ColumnValues(df, c))]]
    /\ pc' = "sample"
    /\ UNCHANGED <<numTrades, today, rng, i, level2_count, level3_count,
                   level3_yes_count, level3_no_count, data, calls, df, metadata,
                   synthetic_df, csv, writes, printed, args, trade>>

SampleValue(model, r, k, c) ==
    LET sdtype == model.metadata.columns[c]
    IN  IF sdtype = "numerical"
        THEN model.lo[c] + Rand(r, k, model.hi[c] - model.lo[c] + 1)
        ELSE IF sdtype = "datetime"
        THEN [day |-> model.lo[c] + Rand(r, k, model.hi[c] - model.lo[c] + 1),
              second |-> Rand(r, k + Len(Columns), 86400)]
        ELSE model.table[Rand(r, k, Len(model.table)) + 1][c]

SampleRows(model, r, n) ==
    [j \in 1..n |->
        [c \in ColumnSet |->
            SampleValue(model, r,
                        (j - 1) * 2 * Len(Columns)
                          + (CHOOSE k \in 1..Len(Columns) : Columns[k] = c),
                        c)]]

\* synthetic_df = synth.sample(NUM_TRADES)
Sample ==
    /\ pc = "sample"
    /\ synthetic_df' = SampleRows(synth, rng, numTrades)
    /\ rng' = Advance(rng, numTrades * 2 * Len(Columns))
    /\ pc' = "cleanup"
    /\ UNCHANGED <<numTrades, today, i, level2_count, level3_count,
                   level3_yes_count, level3_no_count, data, calls, df, metadata,
                   synth, csv, writes, printed, args, trade>>

\* pd.to_datetime(x).dt.date
ToDate(ts) == ts.day

\* Python round(num / den) for num >= 0, den > 0: ties go to the even integer
PyRound(num, den) ==
    LET q == num \div den
        r == num % den
    IN  IF 2 * r < den THEN q
        ELSE IF 2 * r > den THEN q + 1
        ELSE IF q % 2 = 0 THEN q ELSE q + 1

\* the rounding without the multiplication back to currency units
RoundNotional_units(x) == PyRound(x, 100000)

\* lambda x: round(x / 100_000) * 100_000
RoundNotional(x) == PyRound(x, 100000) * 100000

\* lines 120-122
CleanUp ==
    /\ pc = "cleanup"
    /\ synthetic_df' = [j \in 1..Len(synthetic_df) |->
                          [synthetic_df[j] EXCEPT
                             !.trade_date = ToDate(@),
                             !.expiry_date = ToDate(@),
                             !.maturity_date = ToDate(@),
                             !.notional = RoundNotional(@)]]
    /\ pc' = "output"
    /\ UNCHANGED <<numTrades, today, rng, i, level2_count, level3_count,
                   level3_yes_count, level3_no_count, data, calls, df, metadata,
                   synth, csv, writes, printed, args, trade>>

\* synthetic_df.to_csv(output_file, index=False)
Output ==
    /\ pc = "output"
    /\ csv' = synthetic_df
    /\ writes' = writes + 1
    /\ pc' = "report"
    /\ UNCHANGED <<numTrades, today, rng, i, level2_count, level3_count,
                   level3_yes_count, level3_no_count, data, calls, df, metadata,
                   synth, synthetic_df, printed, args, trade>>

\* lines 129-148
Report ==
    /\ pc = "report"
    /\ printed' = TRUE
    /\ pc' = "done"
    /\ UNCHANGED <<numTrades, today, rng, i, level2_count, level3_count,
                   level3_yes_count, level3_no_count, data, calls, df, metadata,
                   synth, synthetic_df, csv, writes, args, trade>>

Running == {"start", "loop_level2", "loop_level3_yes", "loop_level3_no",
            "metadata", "fit", "sample", "cleanup", "output", "report"}

\* a handler that saves whatever table exists when a statement raises
Fault_saves_partial ==
    /\ pc \in Running
    /\ pc' = "aborted"
    /\ csv' = synthetic_df
    /\ writes' = writes + 1
    /\ UNCHANGED <<numTrades, today, rng, i, level2_count, level3_count,
                   level3_yes_count, level3_no_count, data, calls, df, metadata,
                   synth, synthetic_df, printed, args, trade>>

\* an exception at any statement is not caught: the interpreter exits
Fault ==
    /\ pc \in Running
    /\ pc' = "aborted"
    /\ UNCHANGED <<numTrades, today, rng, i, level2_count, level3_count,
                   level3_yes_count, level3_no_count, data, calls, df, metadata,
                   synth, synthetic_df, csv, writes, printed, args, trade>>

Next ==
    \/ Setup
    \/ GenLevel2
    \/ EndLevel2
    \/ GenLevel3Yes
    \/ EndLevel3Yes
    \/ GenLevel3No
    \/ BuildFrame
    \/ SetupMetadata
    \/ Fit
    \/ Sample
    \/ CleanUp
    \/ Output
    \/ Report
    \/ Fault

Spec == Init /\ [][Next]_vars

-----------------------------------------------------------------------------
(* Properties of generate_trade, checked under SpecTrade *)

Returned == pc = "returned"

ForcedLevel2Call == Returned /\ args.force_usd_level2

ForcedLevel3Call == Returned /\ args.force_level3 /\ ~args.force_usd_level2

\* the IFRS 13 rule read off the fields of a record
Level2Fields(t) ==
    /\ t.currency = "USD"
    /\ t.expiry_tenor \in {2, 3}
    /\ t.maturity_tenor < 15
    /\ t.strike < 300

\* C1: every record generate_trade returns for force_usd_level2=True has
\* currency "USD" and ifrs13_level "Level 2".
C1_ForcedLevel2IsUsdLevel2 ==
    ForcedLevel2Call =>
        trade.currency = "USD" /\ trade.ifrs13_level = "Level 2"

\* C2: in every forcing mode the label of the returned record is "Level 2"
\* exactly when the record's own currency, tenors and strike satisfy the rule,
\* and "Level 3" otherwise.
C2_LabelMatchesFields ==
    Returned =>
        /\ trade.ifrs13_level = "Level 2" <=> Level2Fields(trade)
        /\ ~Level2Fields(trade) => trade.ifrs13_level = "Level 3"

\* a forced-Level-3 call whose first tenor draws alone would satisfy the rule
\* and were overridden
C2_Witness ==
    /\ ForcedLevel3Call
    /\ args.d.expiry0 = 2 /\ args.d.maturity0 = 5
    /\ trade.expiry_tenor = 5 /\ trade.maturity_tenor = 15
    /\ trade.ifrs13_level = "Level 3"

\* C3: every record generate_trade returns for force_level3=True (and
\* force_usd_level2=False) has ifrs13_level "Level 3".
C3_ForcedLevel3IsLevel3 ==
    ForcedLevel3Call => trade.ifrs13_level = "Level 3"

C3_Witness ==
    /\ ForcedLevel3Call
    /\ args.d.expiry0 = 3 /\ args.d.maturity0 = 10
    /\ trade.currency = "JPY" /\ trade.strike = 310
    /\ trade.ifrs13_level = "Level 3"

\* C5: in every forcing mode the returned record's expiry_date is its
\* trade_date plus 365 days per year of its own expiry_tenor, and likewise
\* maturity_date for maturity_tenor.
C5_DatesFollowStoredTenors ==
    Returned =>
        /\ trade.expiry_date = trade.trade_date + trade.expiry_tenor * 365
        /\ trade.maturity_date = trade.trade_date + trade.maturity_tenor * 365

\* a forced-Level-3 call whose tenors were both overridden to other values
C5_Witness ==
    /\ ForcedLevel3Call
    /\ args.d.expiry0 = 2 /\ trade.expiry_tenor = 1
    /\ args.d.maturity0 = 5 /\ trade.maturity_tenor = 30
    /\ trade.expiry_date = trade.trade_date + 365
    /\ trade.maturity_date = trade.trade_date + 10950

-----------------------------------------------------------------------------
(* Properties of the whole script, checked under Spec *)

\* the stages in program order
Stages == <<"start", "loop_level2", "loop_level3_yes", "loop_level3_no",
            "metadata", "fit", "sample", "cleanup", "output", "report", "done">>

StageNo(p) == CHOOSE k \in 1..Len(Stages) : Stages[k] = p

\* the seed dataset is complete: the three loops have ended without a fault
SeedBuilt == pc \in {"metadata", "fit", "sample", "cleanup", "output",
                     "report", "done"}

\* the clean-up of the sampled table has run
CleanedUp == pc \in {"output", "report", "done"}

Rows(table) == 1..Len(table)

\* the k-th record was generated with force_usd_level2=True / force_level3=True
ForcedLevel2(k) == calls[k].force_usd_level2 /\ ~calls[k].force_level3

ForcedLevel3(k) == calls[k].force_level3 /\ ~calls[k].force_usd_level2

ForcedLevel2Rows == {k \in Rows(calls) : ForcedLevel2(k)}

ForcedLevel3Rows == {k \in Rows(calls) : ForcedLevel3(k)}

\* floor(n * 4 / 5) and the rest, by integer arithmetic
Share80(n) == (4 * n) \div 5

Rest20(n) == n - Share80(n)

\* C4: the seed dataset has exactly NUM_TRADES records, int(NUM_TRADES * 0.8)
\* of them generated with force_usd_level2=True, the others with
\* force_level3=True, none unforced; 800 and 200 for NUM_TRADES = 1000.
C4_SeedPartition ==
    SeedBuilt =>
        /\ Len(data) = numTrades /\ Len(calls) = numTrades
        /\ Cardinality(ForcedLevel2Rows) = Share80(numTrades)
        /\ Cardinality(ForcedLevel3Rows) = Rest20(numTrades)
        /\ \A k \in Rows(calls) : ForcedLevel2(k) \/ ForcedLevel3(k)
        /\ numTrades = 1000 =>
              /\ Cardinality(ForcedLevel2Rows) = 800
              /\ Cardinality(ForcedLevel3Rows) = 200

C4_Witness ==
    /\ pc = "metadata" /\ numTrades = 1000
    /\ Len(data) = 1000
    /\ calls[800].force_usd_level2 /\ calls[801].force_level3

MultipleInRange(x) == x % 100000 = 0 /\ x >= 1000000 /\ x <= 99900000

C7_ForcedFields ==
    /\ \A k \in Rows(data) :
          /\ ForcedLevel2(k) =>
                /\ data[k].currency = "USD"
                /\ data[k].strike >= 50 /\ data[k].strike <= 290
                /\ data[k].strike < 300
          /\ ForcedLevel3(k) =>
                /\ data[k].currency \in {"EUR", "GBP", "JPY"}
                /\ data[k].strike >= 310 /\ data[k].strike <= 500
                /\ data[k].strike > 300
                /\ data[k].expiry_tenor \in {1, 5}
                /\ data[k].maturity_tenor \in {15, 20, 30}
    /\ SeedBuilt /\ numTrades = 10 =>
          /\ Cardinality({k \in Rows(data) : data[k].currency = "USD"
                                               /\ data[k].strike < 300}) = 8
          /\ Cardinality({k \in Rows(data) :
                             /\ data[k].currency \in {"EUR", "GBP", "JPY"}
                             /\ data[k].strike > 300}) = 2

C7_Witness ==
    /\ pc = "metadata" /\ numTrades = 10 /\ Len(data) = 10
    /\ data[8].currency = "USD" /\ data[9].currency # "USD"
    /\ data[10].expiry_tenor = 1

Yes(k) == data[k].Day2_Pnl_Above_Threshold = "Yes"

No(k) == data[k].Day2_Pnl_Above_Threshold = "No"

YesRows == {k \in Rows(data) : Yes(k)}

\* floor(n * 15 / 100), by integer arithmetic
Share15(n) == (3 * n) \div 20

\* C8: exactly int(level3_count * 0.15) seed records carry the flag "Yes", all
\* of them forced-Level-3 records; the other forced-Level-3 records and all
\* forced-Level-2 records carry "No" (30 / 170 for NUM_TRADES = 1000); the flag
\* follows from the position of the record alone.
C8_Day2Flag ==
    /\ \A k \in Rows(data) :
          /\ Yes(k) <=> /\ k > Share80(numTrades)
                         /\ k <= Share80(numTrades) + Share15(Rest20(numTrades))
          /\ No(k) <=> ~Yes(k)
          /\ ForcedLevel2(k) => No(k)
          /\ Yes(k) => ForcedLevel3(k)
    /\ SeedBuilt =>
          /\ Cardinality(YesRows) = Share15(Rest20(numTrades))
          /\ Cardinality({k \in ForcedLevel3Rows : No(k)})
                = Rest20(numTrades) - Share15(Rest20(numTrades))
          /\ numTrades = 1000 =>
                /\ Cardinality(YesRows) = 30
                /\ Cardinality({k \in ForcedLevel3Rows : No(k)}) = 170

C8_Witness ==
    /\ pc = "metadata" /\ numTrades = 1000
    /\ data[801].Day2_Pnl_Above_Threshold = "Yes"
    /\ data[830].Day2_Pnl_Above_Threshold = "Yes"
    /\ data[831].Day2_Pnl_Above_Threshold = "No"
    /\ data[831].ifrs13_level = data[830].ifrs13_level

\* C9: the stages run in program order, one after the other; nothing runs
\* after the run has ended or aborted (no retry); the file is written once at
\* most, by the output stage, after the clean-up; a run that a fault aborts
\* before the output stage has written nothing.
C9_PipelineOrder ==
    [][ /\ pc \notin {"done", "aborted"}
        /\ pc' # pc => pc' = "aborted" \/ StageNo(pc') = StageNo(pc) + 1
        /\ (writes' # writes \/ csv' # csv) =>
              /\ pc = "output" /\ pc' = "report"
              /\ writes = 0 /\ writes' = 1
              /\ csv' = synthetic_df
              /\ metadata # <<>> /\ synth # <<>> /\ Len(df) = numTrades
        /\ (pc' = "aborted" /\ StageNo(pc) <= StageNo("output")) =>
              writes' = 0 /\ csv' = <<>>
      ]_vars

\* a run aborted during the clean-up, after the sampling: nothing is written
C9_Witness ==
    /\ pc = "aborted" /\ synthetic_df # <<>> /\ writes = 0 /\ csv = <<>>

RECURSIVE ParseInt(_)
\* the number a sequence of decimal digits denotes
ParseInt(s) ==
    IF s = <<>> THEN 0
    ELSE 10 * ParseInt(SubSeq(s, 1, Len(s) - 1))
           + ((CHOOSE k \in 1..10 : Digits[k] = s[Len(s)]) - 1)

DigitCount(n) == IF n < 10 THEN 1 ELSE IF n < 100 THEN 2 ELSE IF n < 1000 THEN 3
                 ELSE IF n < 10000 THEN 4 ELSE 5

IsTradeIdOf(id, n) ==
    /\ Len(id) = 7 + (IF DigitCount(n) < 4 THEN 4 ELSE DigitCount(n))
    /\ SubSeq(id, 1, 7) = <<"H", "A", "C", "K", "T", "R", "D">>
    /\ \A k \in 8..Len(id) : \E c \in 1..10 : Digits[c] = id[k]
    /\ ParseInt(SubSeq(id, 8, Len(id))) = n

\* C10: the loops call generate_trade with seq_id 1, 2, ..., NUM_TRADES, each
\* once and in this order, the three ranges meeting without gap or overlap;
\* the i-th seed record has trade_id "HACKTRD" followed by i padded with
\* zeros to four digits at least, and the trade_ids are pairwise distinct.
C10_SequentialIds ==
    /\ Len(calls) = Len(data)
    /\ \A k \in Rows(calls) :
          /\ calls[k].seq_id = k
          /\ IsTradeIdOf(data[k].trade_id, k)
          /\ ForcedLevel2(k) <=> k <= Share80(numTrades)
          /\ ForcedLevel3(k) <=> k > Share80(numTrades)
    /\ SeedBuilt =>
          /\ Len(calls) = numTrades
          /\ Cardinality({data[k].trade_id : k \in Rows(data)}) = numTrades

C10_Witness ==
    /\ pc = "metadata" /\ numTrades = 1000
    /\ data[7].trade_id = <<"H", "A", "C", "K", "T", "R", "D", "0", "0", "0", "7">>
    /\ data[1000].trade_id = <<"H", "A", "C", "K", "T", "R", "D", "1", "0", "0", "0">>
    /\ calls[831].seq_id = 831

====
